---- MODULE Spec2Model ----
(***************************************************************************)
(* Model of the concurrent analysis engine of VChecker.py:                 *)
(*   check_video_corruption  (one invocation per submitted future),        *)
(*   run_analysis            (the harvesting thread),                      *)
(*   cleanup_active_processes, the input listener that sets STOP_EVENT,    *)
(*   and the FFmpeg child processes as the environment.                    *)
(* A file is identified by its rank in path order, which is also the      *)
(* identity of its future and of the process spawned for it. Thread 0 is   *)
(* the thread that runs run_analysis. A step of a thread holds at most one *)
(* access to state another thread can change, plus the local work around   *)
(* it; a lock region of a worker (acquire, one update, release) is one     *)
(* step, enabled when the lock is free.                                    *)
(***************************************************************************)
EXTENDS Integers, Sequences, FiniteSets, TLC

\* Bounds of the model.
NumTasks == 2
MaxWorkers == 2
MaxPathLen == 3
MaxPairs == 2

VARIABLES
    video_files,       \* run_analysis argument: the files, by rank in path order
    kind,              \* per file: what the file is like on disk
    workers,           \* run_analysis argument: max_workers of the executor
    use_cache,         \* run_analysis argument
    timeout_set,       \* ANALYSIS_TIMEOUT is not None
    STOP_EVENT,        \* threading.Event, TRUE when set
    ACTIVE_PROCESSES,  \* set of process handles
    PROCESS_LOCK,      \* set of threads holding the lock
    pc,                \* per future: position of its invocation / future state
    ret,               \* per future: value of the executed return statement
    proc,              \* per future: the Popen handle of the invocation ("none"
                       \* before Popen and after the function has returned)
    local_copy,        \* per future: the staged copy exists on disk
    mainPc,            \* position of run_analysis
    yielded,           \* futures as_completed has handed to the loop body
    harvested,         \* futures whose result() returned a verdict in the loop
    corrupted_files,   \* list of (path, reason) built by the loop
    active_procs,      \* cleanup_active_processes: snapshot entries still to do
    result,            \* value returned by run_analysis
    stopSetAt,         \* mainPc at the moment STOP_EVENT was set
    ranAtStop,         \* processes that were running at that moment
    reportPc,          \* position of the report stage: save_report, load_report
    to_save,           \* save_report argument corrupted_files
    report_file,       \* content of the report file, NoFile if there is none
    on_disk,           \* the paths that exist
    loaded,            \* value returned by load_report
    temp_dir           \* the TemporaryDirectory of run_analysis exists

vars == <<video_files, kind, workers, use_cache, timeout_set, STOP_EVENT, ACTIVE_PROCESSES,
          PROCESS_LOCK, pc, ret, proc, local_copy, mainPc, yielded, harvested,
          corrupted_files, active_procs, result, stopSetAt, ranAtStop,
          reportPc, to_save, report_file, on_disk, loaded, temp_dir>>

\* What a file can be: decodable, damaged, one FFmpeg never finishes on its
\* own, one whose source cannot be read, or "any": nothing is known of it
\* and every outcome is possible.
Kinds == {"healthy", "corrupt", "hang", "unreadable", "any"}

NoVerdict == <<>>

Alive == {"running"}
Exited == {"exit0", "exitN", "killedW", "killedC"}

\* States of a future in which its invocation occupies a worker thread.
Executing == {"spawn", "register", "poll", "chkstop", "except", "fin_lock",
              "fin_unlink"}

Finished == {"done", "raised"}

Running(t) == pc[t] \in Executing

\* ---- pure helpers --------------------------------------------------------

\* Insertion of one (path, reason) pair into a list sorted by path, after
\* every entry whose path is not greater (stable).
RECURSIVE InsertByPath(_, _)
InsertByPath(e, s) ==
    IF s = <<>> THEN <<e>>
    ELSE IF e[1] < Head(s)[1] THEN <<e>> \o s
    ELSE <<Head(s)>> \o InsertByPath(e, Tail(s))

SortedByPath_AsHarvested(s) == s

\* sorted(corrupted_files, key=lambda x: x[0])
RECURSIVE SortedByPath(_)
SortedByPath(s) ==
    IF s = <<>> THEN <<>>
    ELSE InsertByPath(s[Len(s)], SortedByPath(SubSeq(s, 1, Len(s) - 1)))

\* returncode of an exited process is 0
ReturnCodeZero(p) == p = "exit0"

\* The verdict of line 280.
ExitVerdict(t, p) ==
    IF ReturnCodeZero(p) THEN <<t, FALSE, "Healthy">>
    ELSE <<t, TRUE, "Corruption detected">>

\* The verdict of line 282.
ExceptVerdict(t, stop) ==
    IF stop THEN <<t, FALSE, "Cancelled">>
    ELSE <<t, TRUE, "Unexpected error">>

\* Popen.terminate() followed by a wait in which the process exits:
\* "killedW" is a process ended by its worker's terminate(), "killedC" one
\* ended by cleanup_active_processes; both have a nonzero returncode. A
\* process that had exited before keeps its returncode.
TerminatedBy(p, who) ==
    IF p = "running" THEN (IF who = "W" THEN "killedW" ELSE "killedC") ELSE p

\* ---- initial state -------------------------------------------------------

\* The state right after line 299 submitted one future per file; the
\* temporary directory was created on line 296.
Submitted ==
    /\ temp_dir = TRUE
    /\ STOP_EVENT = FALSE
    /\ ACTIVE_PROCESSES = {}
    /\ PROCESS_LOCK = {}
    /\ pc = [t \in video_files |-> "pending"]
    /\ ret = [t \in video_files |-> NoVerdict]
    /\ proc = [t \in video_files |-> "none"]
    /\ local_copy = [t \in video_files |-> FALSE]
    /\ mainPc = "harvest"
    /\ yielded = {}
    /\ harvested = {}
    /\ corrupted_files = <<>>
    /\ active_procs = {}
    /\ result = <<>>
    /\ stopSetAt = "unset"
    /\ ranAtStop = {}

\* No report is being written or read.
NoFile == "none"

ReportIdle ==
    /\ reportPc = "idle"
    /\ to_save = <<>>
    /\ report_file = NoFile
    /\ on_disk = {}
    /\ loaded = <<>>

Init ==
    /\ ReportIdle
    /\ video_files = 1..NumTasks
    /\ kind = [t \in video_files |-> "any"]
    /\ workers \in 1..MaxWorkers
    /\ use_cache \in BOOLEAN
    /\ timeout_set \in BOOLEAN
    /\ Submitted

mainVars == <<mainPc, yielded, harvested, corrupted_files, active_procs, result>>
reportVars == <<reportPc, to_save, report_file, on_disk, loaded>>

\* What the analysis only reads or does not touch: the arguments of
\* run_analysis and the state of the report stage.
argVars == <<video_files, kind, workers, use_cache, timeout_set, reportVars>>
cfgVars == <<argVars, temp_dir>>
stopVars == <<STOP_EVENT, stopSetAt, ranAtStop>>

\* ---- input listener ------------------------------------------------------

SetStop ==
    /\ ~STOP_EVENT
    /\ mainPc # "done"
    /\ STOP_EVENT' = TRUE
    /\ stopSetAt' = mainPc
    /\ UNCHANGED <<cfgVars, ACTIVE_PROCESSES, PROCESS_LOCK, pc, ret, proc,
                   local_copy, mainVars, ranAtStop>>

\* The same step, also recording which ffmpeg processes were running.
SetStopRunning ==
    /\ ~STOP_EVENT
    /\ mainPc # "done"
    /\ STOP_EVENT' = TRUE
    /\ stopSetAt' = mainPc
    /\ ranAtStop' = {t \in video_files : proc[t] \in Alive}
    /\ UNCHANGED <<cfgVars, ACTIVE_PROCESSES, PROCESS_LOCK, pc, ret, proc,
                   local_copy, mainVars>>

\* ---- check_video_corruption, one invocation per future --------------------

\* The executor's work queue is first in, first out: the next future to run
\* is the pending one submitted first.
QueueHead(t) ==
    /\ pc[t] = "pending"
    /\ \A u \in video_files : u < t => pc[u] # "pending"

WorkerFree_Always == TRUE

\* A worker thread is free to take a work item.
WorkerFree == Cardinality({u \in video_files : Running(u)}) < workers

workerFrame == <<cfgVars, mainVars, stopVars>>

\* A worker thread takes the future off the queue and enters the function
\* with use_cache false (lines 253-257).
Start(t) ==
    /\ QueueHead(t)
    /\ WorkerFree
    /\ ~use_cache
    /\ pc' = [pc EXCEPT ![t] = "spawn"]
    /\ UNCHANGED <<workerFrame, ACTIVE_PROCESSES, PROCESS_LOCK, ret, proc,
                   local_copy>>

\* A worker thread takes the future off the queue, use_cache is true and
\* shutil.copy2 succeeds (lines 253-261).
StartCopyOk(t) ==
    /\ QueueHead(t)
    /\ WorkerFree
    /\ use_cache
    /\ kind[t] # "unreadable"
    /\ local_copy' = [local_copy EXCEPT ![t] = TRUE]
    /\ pc' = [pc EXCEPT ![t] = "spawn"]
    /\ UNCHANGED <<workerFrame, ACTIVE_PROCESSES, PROCESS_LOCK, ret, proc>>

StartCopyFail_Continue(t) ==
    /\ QueueHead(t)
    /\ WorkerFree
    /\ use_cache
    /\ kind[t] \in {"unreadable", "any"}
    /\ ret' = [ret EXCEPT ![t] = <<t, TRUE, "Local copy error">>]
    /\ pc' = [pc EXCEPT ![t] = "spawn"]
    /\ UNCHANGED <<workerFrame, ACTIVE_PROCESSES, PROCESS_LOCK, proc,
                   local_copy>>

\* A worker thread takes the future off the queue, use_cache is true and
\* shutil.copy2 raises: return outside the try block (lines 253-263).
StartCopyFail(t) ==
    /\ QueueHead(t)
    /\ WorkerFree
    /\ use_cache
    /\ kind[t] \in {"unreadable", "any"}
    /\ ret' = [ret EXCEPT ![t] = <<t, TRUE, "Local copy error">>]
    /\ pc' = [pc EXCEPT ![t] = "done"]
    /\ UNCHANGED <<workerFrame, ACTIVE_PROCESSES, PROCESS_LOCK, proc,
                   local_copy>>

\* subprocess.Popen starts FFmpeg (line 267).
SpawnOk(t) ==
    /\ pc[t] = "spawn"
    /\ proc' = [proc EXCEPT ![t] = "running"]
    /\ pc' = [pc EXCEPT ![t] = "register"]
    /\ UNCHANGED <<workerFrame, ACTIVE_PROCESSES, PROCESS_LOCK, ret,
                   local_copy>>

\* subprocess.Popen raises (OSError): the except clause returns by the
\* stop flag, and the finally clause has no process to deregister
\* (lines 267, 281-284).
SpawnFail(t) ==
    /\ pc[t] = "spawn"
    /\ ret' = [ret EXCEPT ![t] = ExceptVerdict(t, STOP_EVENT)]
    /\ pc' = [pc EXCEPT ![t] = "fin_unlink"]
    /\ UNCHANGED <<workerFrame, ACTIVE_PROCESSES, PROCESS_LOCK, proc,
                   local_copy>>

\* A registration that forgets the handle.
Registered_Skip(reg, t) == reg

\* The registry after ACTIVE_PROCESSES.add(process).
Registered(reg, t) == reg \cup {t}

\* with PROCESS_LOCK: ACTIVE_PROCESSES.add(process) (line 268): the lock is
\* acquired when free, the handle added and the lock released.
Register(t) ==
    /\ pc[t] = "register"
    /\ PROCESS_LOCK = {}
    /\ ACTIVE_PROCESSES' = Registered(ACTIVE_PROCESSES, t)
    /\ pc' = [pc EXCEPT ![t] = "poll"]
    /\ UNCHANGED <<workerFrame, PROCESS_LOCK, ret, proc, local_copy>>

\* process.poll() finds the process gone: line 280 returns.
PollExited(t) ==
    /\ pc[t] = "poll"
    /\ proc[t] \in Exited
    /\ ret' = [ret EXCEPT ![t] = ExitVerdict(t, proc[t])]
    /\ pc' = [pc EXCEPT ![t] = "fin_lock"]
    /\ UNCHANGED <<workerFrame, ACTIVE_PROCESSES, PROCESS_LOCK, proc,
                   local_copy>>

\* process.poll() is None: enter the loop body (line 271).
PollAlive(t) ==
    /\ pc[t] = "poll"
    /\ proc[t] \in Alive
    /\ pc' = [pc EXCEPT ![t] = "chkstop"]
    /\ UNCHANGED <<workerFrame, ACTIVE_PROCESSES, PROCESS_LOCK, ret, proc,
                   local_copy>>

\* STOP_EVENT.is_set() is true; process.terminate(); process.wait(timeout=5)
\* returns; return Cancelled (lines 272-274).
StopTerminate(t) ==
    /\ pc[t] = "chkstop"
    /\ STOP_EVENT
    /\ proc' = [proc EXCEPT ![t] = TerminatedBy(proc[t], "W")]
    /\ ret' = [ret EXCEPT ![t] = <<t, FALSE, "Cancelled">>]
    /\ pc' = [pc EXCEPT ![t] = "fin_lock"]
    /\ UNCHANGED <<workerFrame, ACTIVE_PROCESSES, PROCESS_LOCK, local_copy>>

\* STOP_EVENT.is_set() is true; process.terminate(); process.wait(timeout=5)
\* raises TimeoutExpired: the process outlives the grace period, and the
\* except clause finds the flag, which is never cleared, still set
\* (lines 272-273, 281-282).
StopGraceExpired(t) ==
    /\ pc[t] = "chkstop"
    /\ STOP_EVENT
    /\ proc[t] \in Alive
    /\ ret' = [ret EXCEPT ![t] = ExceptVerdict(t, STOP_EVENT)]
    /\ pc' = [pc EXCEPT ![t] = "fin_lock"]
    /\ UNCHANGED <<workerFrame, ACTIVE_PROCESSES, PROCESS_LOCK, proc,
                   local_copy>>

TimeoutTerminate_NoKill(t) ==
    /\ pc[t] = "chkstop"
    /\ ~STOP_EVENT
    /\ timeout_set
    /\ ret' = [ret EXCEPT ![t] = <<t, TRUE, "Timeout">>]
    /\ pc' = [pc EXCEPT ![t] = "fin_lock"]
    /\ UNCHANGED <<workerFrame, ACTIVE_PROCESSES, PROCESS_LOCK, proc,
                   local_copy>>

\* The flag is not set, the timeout test of line 275 is true;
\* process.terminate(); process.wait(timeout=5) returns; return Timeout
\* (lines 275-277).
TimeoutTerminate(t) ==
    /\ pc[t] = "chkstop"
    /\ ~STOP_EVENT
    /\ timeout_set
    /\ proc' = [proc EXCEPT ![t] = TerminatedBy(proc[t], "W")]
    /\ ret' = [ret EXCEPT ![t] = <<t, TRUE, "Timeout">>]
    /\ pc' = [pc EXCEPT ![t] = "fin_lock"]
    /\ UNCHANGED <<workerFrame, ACTIVE_PROCESSES, PROCESS_LOCK, local_copy>>

\* The flag is not set, the timeout test of line 275 is true;
\* process.terminate(); process.wait(timeout=5) raises TimeoutExpired
\* (lines 275-276).
TimeoutGraceExpired(t) ==
    /\ pc[t] = "chkstop"
    /\ ~STOP_EVENT
    /\ timeout_set
    /\ proc[t] \in Alive
    /\ pc' = [pc EXCEPT ![t] = "except"]
    /\ UNCHANGED <<workerFrame, ACTIVE_PROCESSES, PROCESS_LOCK, ret, proc,
                   local_copy>>

\* The flag is not set, the timeout test is false; time.sleep(0.1)
\* (lines 272-278).
Sleep(t) ==
    /\ pc[t] = "chkstop"
    /\ ~STOP_EVENT
    /\ pc' = [pc EXCEPT ![t] = "poll"]
    /\ UNCHANGED <<workerFrame, ACTIVE_PROCESSES, PROCESS_LOCK, ret, proc,
                   local_copy>>

\* except Exception after the TimeoutExpired of line 276: the verdict goes
\* by the stop flag as it is now (lines 281-282).
Except(t) ==
    /\ pc[t] = "except"
    /\ ret' = [ret EXCEPT ![t] = ExceptVerdict(t, STOP_EVENT)]
    /\ pc' = [pc EXCEPT ![t] = "fin_lock"]
    /\ UNCHANGED <<workerFrame, ACTIVE_PROCESSES, PROCESS_LOCK, proc,
                   local_copy>>

\* A finally clause that leaves the handle in the registry.
Deregistered_Keep(reg, t) == reg

\* The registry after line 286.
Deregistered(reg, t) == reg \ {t}

FinallyRemove_NoLock(t) ==
    /\ pc[t] = "fin_lock"
    /\ ACTIVE_PROCESSES' = Deregistered(ACTIVE_PROCESSES, t)
    /\ pc' = [pc EXCEPT ![t] = "fin_unlink"]
    /\ UNCHANGED <<workerFrame, PROCESS_LOCK, ret, proc, local_copy>>

FinallyRemove_HoldLock(t) ==
    /\ pc[t] = "fin_lock"
    /\ PROCESS_LOCK = {}
    /\ ACTIVE_PROCESSES' = Deregistered(ACTIVE_PROCESSES, t)
    /\ PROCESS_LOCK' = {t}
    /\ pc' = [pc EXCEPT ![t] = "fin_unlink"]
    /\ UNCHANGED <<workerFrame, ret, proc, local_copy>>

\* finally: with PROCESS_LOCK: remove the handle if it is in the registry
\* (lines 284-286): the lock is acquired when free and released after.
FinallyRemove(t) ==
    /\ pc[t] = "fin_lock"
    /\ PROCESS_LOCK = {}
    /\ ACTIVE_PROCESSES' = Deregistered(ACTIVE_PROCESSES, t)
    /\ pc' = [pc EXCEPT ![t] = "fin_unlink"]
    /\ UNCHANGED <<workerFrame, PROCESS_LOCK, ret, proc, local_copy>>

\* The invocation leaves check_video_corruption: its local `process` goes
\* out of scope, and the handle plays no further part in the run.
Returned(t) ==
    /\ proc' = [proc EXCEPT ![t] = "none"]
    /\ ranAtStop' = ranAtStop \ {t}

returnFrame == <<cfgVars, mainVars, STOP_EVENT, stopSetAt, ACTIVE_PROCESSES,
                 PROCESS_LOCK>>

UnlinkOk_Keep(t) ==
    /\ pc[t] = "fin_unlink"
    /\ local_copy[t]
    /\ Returned(t)
    /\ pc' = [pc EXCEPT ![t] = "done"]
    /\ UNCHANGED <<returnFrame, ret, local_copy>>

\* local_copy.unlink() succeeds; the future is set to the returned verdict
\* (line 287).
UnlinkOk(t) ==
    /\ pc[t] = "fin_unlink"
    /\ local_copy[t]
    /\ local_copy' = [local_copy EXCEPT ![t] = FALSE]
    /\ Returned(t)
    /\ pc' = [pc EXCEPT ![t] = "done"]
    /\ UNCHANGED <<returnFrame, ret>>

\* local_copy.unlink() raises (the file is held open or protected): the
\* exception leaves the finally clause and replaces the return value, so
\* the future ends with an exception (line 287).
UnlinkFail(t) ==
    /\ pc[t] = "fin_unlink"
    /\ local_copy[t]
    /\ Returned(t)
    /\ pc' = [pc EXCEPT ![t] = "raised"]
    /\ UNCHANGED <<returnFrame, ret, local_copy>>

\* No staged copy to delete: the future is set to the returned verdict.
NoUnlink(t) ==
    /\ pc[t] = "fin_unlink"
    /\ ~local_copy[t]
    /\ Returned(t)
    /\ pc' = [pc EXCEPT ![t] = "done"]
    /\ UNCHANGED <<returnFrame, ret, local_copy>>

\* ---- the FFmpeg processes -------------------------------------------------

envFrame == <<cfgVars, mainVars, stopVars, ACTIVE_PROCESSES,
              PROCESS_LOCK, pc, ret, local_copy>>

\* Nothing in the program depends on when a process exits, only on what
\* poll(), terminate() and wait() find: the exit is placed between a poll
\* and the next look at the process, by its worker or by the cleanup.
Observed(t) == pc[t] \in {"poll", "chkstop"}

\* FFmpeg decodes the whole file and exits with code 0.
ProcExitZero(t) ==
    /\ proc[t] = "running"
    /\ Observed(t)
    /\ kind[t] \in {"healthy", "any"}
    /\ proc' = [proc EXCEPT ![t] = "exit0"]
    /\ UNCHANGED envFrame

\* FFmpeg hits a decoding or read error and exits with a nonzero code.
ProcExitNonzero(t) ==
    /\ proc[t] = "running"
    /\ Observed(t)
    /\ kind[t] \in {"corrupt", "unreadable", "any"}
    /\ proc' = [proc EXCEPT ![t] = "exitN"]
    /\ UNCHANGED envFrame

\* ---- run_analysis ---------------------------------------------------------

mainFrame == <<cfgVars, ret, local_copy>>

\* as_completed hands over a finished future and line 301 finds the stop
\* flag set: break, and line 307 calls cleanup_active_processes.
HarvestBreak(t) ==
    /\ mainPc = "harvest"
    /\ pc[t] \in Finished
    /\ t \notin yielded
    /\ STOP_EVENT
    /\ mainPc' = "cleanup"
    /\ UNCHANGED <<mainFrame, stopVars, ACTIVE_PROCESSES,
                   PROCESS_LOCK, pc, proc, yielded, harvested, corrupted_files,
                   active_procs, result>>

\* The list after lines 303-304 took one verdict.
Collected(files, v) ==
    IF v[2] THEN Append(files, <<v[1], v[3]>>) ELSE files

HarvestResult_Unfiltered(t) ==
    /\ mainPc = "harvest"
    /\ pc[t] = "done"
    /\ t \notin yielded
    /\ yielded' = yielded \cup {t}
    /\ harvested' = harvested \cup {t}
    /\ corrupted_files' = Append(corrupted_files, <<ret[t][1], ret[t][3]>>)
    /\ UNCHANGED <<mainFrame, stopVars, ACTIVE_PROCESSES,
                   PROCESS_LOCK, pc, proc, mainPc, active_procs, result>>

\* as_completed hands over a future that holds a verdict, the flag is not
\* set: lines 303-304.
HarvestResult(t) ==
    /\ mainPc = "harvest"
    /\ pc[t] = "done"
    /\ t \notin yielded
    /\ ~STOP_EVENT
    /\ yielded' = yielded \cup {t}
    /\ harvested' = harvested \cup {t}
    /\ corrupted_files' = Collected(corrupted_files, ret[t])
    /\ UNCHANGED <<mainFrame, stopVars, ACTIVE_PROCESSES,
                   PROCESS_LOCK, pc, proc, mainPc, active_procs, result>>

HarvestError_Halt(t) ==
    /\ mainPc = "harvest"
    /\ pc[t] = "raised"
    /\ t \notin yielded
    /\ ~STOP_EVENT
    /\ mainPc' = "join"
    /\ UNCHANGED <<mainFrame, stopVars, ACTIVE_PROCESSES,
                   PROCESS_LOCK, pc, proc, yielded, harvested, corrupted_files,
                   active_procs, result>>

\* as_completed hands over a future that raised, the flag is not set:
\* future.result() raises and line 305 logs it.
HarvestError(t) ==
    /\ mainPc = "harvest"
    /\ pc[t] = "raised"
    /\ t \notin yielded
    /\ ~STOP_EVENT
    /\ yielded' = yielded \cup {t}
    /\ UNCHANGED <<mainFrame, stopVars, ACTIVE_PROCESSES,
                   PROCESS_LOCK, pc, proc, mainPc, harvested, corrupted_files,
                   active_procs, result>>

LoopEndAbort_Join ==
    /\ mainPc = "harvest"
    /\ yielded = video_files
    /\ STOP_EVENT
    /\ mainPc' = "join"
    /\ UNCHANGED <<mainFrame, stopVars, ACTIVE_PROCESSES,
                   PROCESS_LOCK, pc, proc, yielded, harvested, corrupted_files,
                   active_procs, result>>

\* as_completed is exhausted, the for loop ends, and line 307 finds the
\* flag set.
LoopEndAbort ==
    /\ mainPc = "harvest"
    /\ yielded = video_files
    /\ STOP_EVENT
    /\ mainPc' = "cleanup"
    /\ UNCHANGED <<mainFrame, stopVars, ACTIVE_PROCESSES,
                   PROCESS_LOCK, pc, proc, yielded, harvested, corrupted_files,
                   active_procs, result>>

\* as_completed is exhausted, the for loop ends, and line 307 finds the
\* flag not set: the with block of the executor is left.
LoopEnd ==
    /\ mainPc = "harvest"
    /\ yielded = video_files
    /\ ~STOP_EVENT
    /\ mainPc' = "join"
    /\ UNCHANGED <<mainFrame, stopVars, ACTIVE_PROCESSES,
                   PROCESS_LOCK, pc, proc, yielded, harvested, corrupted_files,
                   active_procs, result>>

\* cleanup_active_processes: acquire the lock, take the snapshot, find it
\* empty and return (lines 233-235); the lock is released.
CleanupEmpty ==
    /\ mainPc = "cleanup"
    /\ PROCESS_LOCK = {}
    /\ ACTIVE_PROCESSES = {}
    /\ mainPc' = "cl_ret"
    /\ UNCHANGED <<mainFrame, stopVars, ACTIVE_PROCESSES,
                   PROCESS_LOCK, pc, proc, yielded, harvested, corrupted_files,
                   active_procs, result>>

\* cleanup_active_processes: acquire the lock and take the snapshot, which
\* is not empty (lines 233-236).
CleanupLock ==
    /\ mainPc = "cleanup"
    /\ PROCESS_LOCK = {}
    /\ ACTIVE_PROCESSES # {}
    /\ PROCESS_LOCK' = {0}
    /\ active_procs' = ACTIVE_PROCESSES
    /\ mainPc' = "cl_loop"
    /\ UNCHANGED <<mainFrame, stopVars, ACTIVE_PROCESSES, pc,
                   proc, yielded, harvested, corrupted_files, result>>

\* p.terminate(); p.wait(timeout=5) returns (line 238).
CleanupTerminate(p) ==
    /\ mainPc = "cl_loop"
    /\ p \in active_procs
    /\ proc' = [proc EXCEPT ![p] = TerminatedBy(proc[p], "C")]
    /\ active_procs' = active_procs \ {p}
    /\ UNCHANGED <<mainFrame, stopVars, ACTIVE_PROCESSES,
                   PROCESS_LOCK, pc, mainPc, yielded, harvested,
                   corrupted_files, result>>

\* p.terminate(); p.wait(timeout=5) raises TimeoutExpired, which line 239
\* swallows.
CleanupGraceExpired(p) ==
    /\ mainPc = "cl_loop"
    /\ p \in active_procs
    /\ proc[p] \in Alive
    /\ active_procs' = active_procs \ {p}
    /\ UNCHANGED <<mainFrame, stopVars, ACTIVE_PROCESSES,
                   PROCESS_LOCK, pc, proc, mainPc, yielded, harvested,
                   corrupted_files, result>>

\* The registry after ACTIVE_PROCESSES.clear().
Cleared(reg) == {}

CleanupClear_HoldLock ==
    /\ mainPc = "cl_loop"
    /\ active_procs = {}
    /\ ACTIVE_PROCESSES' = Cleared(ACTIVE_PROCESSES)
    /\ mainPc' = "cl_ret"
    /\ UNCHANGED <<mainFrame, stopVars, PROCESS_LOCK, pc, proc, yielded,
                   harvested, corrupted_files, active_procs, result>>

\* ACTIVE_PROCESSES.clear() and the release of the lock (line 240).
CleanupClear ==
    /\ mainPc = "cl_loop"
    /\ active_procs = {}
    /\ ACTIVE_PROCESSES' = Cleared(ACTIVE_PROCESSES)
    /\ PROCESS_LOCK' = PROCESS_LOCK \ {0}
    /\ mainPc' = "cl_ret"
    /\ UNCHANGED <<mainFrame, stopVars, pc, proc, yielded,
                   harvested, corrupted_files, active_procs, result>>

\* cleanup_active_processes has left its with block, the lock is released;
\* the call returns to line 309.
CleanupReturn ==
    /\ mainPc = "cl_ret"
    /\ mainPc' = "shutdown"
    /\ UNCHANGED <<mainFrame, stopVars, ACTIVE_PROCESSES,
                   PROCESS_LOCK, pc, proc, yielded, harvested, corrupted_files,
                   active_procs, result>>

\* executor.shutdown(wait=False, cancel_futures=True) takes the next work
\* item off the queue and cancels its future (line 309).
ShutdownCancel(t) ==
    /\ mainPc = "shutdown"
    /\ QueueHead(t)
    /\ pc' = [pc EXCEPT ![t] = "cancelled"]
    /\ UNCHANGED <<mainFrame, stopVars, ACTIVE_PROCESSES,
                   PROCESS_LOCK, proc, mainPc, yielded, harvested,
                   corrupted_files, active_procs, result>>

\* An executor whose with block is left without waiting for its threads.
WorkersJoined_NoWait == TRUE

\* ThreadPoolExecutor.__exit__ joins the worker threads: no invocation is
\* still executing.
WorkersJoined == \A t \in video_files : ~Running(t)

\* An abort path that reports what was collected so far.
AbortResult_Partial(files) == SortedByPath(files)

\* The value of return [] (line 310).
AbortResult(files) == <<>>

\* TemporaryDirectory.__exit__ removes the directory and whatever is
\* still in it (line 296).
Removed(copies) == [t \in DOMAIN copies |-> FALSE]

\* The queue is drained; return [] leaves the with block of the executor,
\* which joins the workers, then the with block of the temporary
\* directory, which removes it (lines 309-310, 298, 296).
ReturnEmpty ==
    /\ mainPc = "shutdown"
    /\ \A t \in video_files : pc[t] # "pending"
    /\ WorkersJoined
    /\ temp_dir' = FALSE
    /\ local_copy' = Removed(local_copy)
    /\ result' = AbortResult(corrupted_files)
    /\ mainPc' = "done"
    /\ UNCHANGED <<argVars, ret, stopVars, ACTIVE_PROCESSES,
                   PROCESS_LOCK, pc, proc, yielded, harvested, corrupted_files,
                   active_procs>>

\* The normal path leaves the with block of the executor, which joins the
\* workers, then the with block of the temporary directory, which removes
\* it, and returns the sorted list (lines 298, 296, 311).
ReturnSorted ==
    /\ mainPc = "join"
    /\ WorkersJoined
    /\ temp_dir' = FALSE
    /\ local_copy' = Removed(local_copy)
    /\ result' = SortedByPath(corrupted_files)
    /\ mainPc' = "done"
    /\ UNCHANGED <<argVars, ret, stopVars, ACTIVE_PROCESSES,
                   PROCESS_LOCK, pc, proc, yielded, harvested, corrupted_files,
                   active_procs>>

\* ---- save_report, load_report ----------------------------------------------

\* A string is a sequence of characters; "x" stands for every character
\* that is neither white space nor a line end.
Chars == {"x", " ", "\t", "\n"}
Blank == {" ", "\t", "\n"}

\* The paths rglob can hand out: they begin with the scanned directory and
\* end with a video extension; a file name may hold any character.
Paths ==
    {s \in UNION {[1..k -> Chars] : k \in 1..MaxPathLen} :
        s[1] = "x" /\ s[Len(s)] = "x"}

\* The reasons of corrupted verdicts: words separated by single spaces.
Reasons == {<<"x">>, <<"x", " ", "x">>}

\* The lists save_report can be given: pairs with distinct paths.
PairLists ==
    {l \in UNION {[1..k -> Paths \X Reasons] : k \in 0..MaxPairs} :
        \A i, j \in DOMAIN l : i # j => l[i][1] # l[j][1]}

\* f"{path}\t{reason}\n" (line 367)
ReportLine(path, reason) == path \o <<"\t">> \o reason \o <<"\n">>

\* What the for loop of save_report writes.
RECURSIVE Written(_)
Written(pairs) ==
    IF pairs = <<>> THEN <<>>
    ELSE ReportLine(Head(pairs)[1], Head(pairs)[2]) \o Written(Tail(pairs))

\* str.split(sep): the pieces between the occurrences of sep.
RECURSIVE Split(_, _)
Split(text, sep) ==
    IF \A i \in DOMAIN text : text[i] # sep THEN <<text>>
    ELSE LET i == CHOOSE k \in DOMAIN text :
                      text[k] = sep /\ \A m \in 1..(k - 1) : text[m] # sep
         IN <<SubSeq(text, 1, i - 1)>> \o Split(SubSeq(text, i + 1, Len(text)), sep)

\* The lines `for line in f` yields: the pieces ended by a line end, and
\* the rest of the file if it is not empty.
FileLines(text) ==
    LET pieces == Split(text, "\n")
    IN IF pieces[Len(pieces)] = <<>> THEN SubSeq(pieces, 1, Len(pieces) - 1)
       ELSE pieces

\* str.strip(): white space is dropped at both ends.
RECURSIVE Strip(_)
Strip(line) ==
    IF line = <<>> THEN line
    ELSE IF Head(line) \in Blank THEN Strip(Tail(line))
    ELSE IF line[Len(line)] \in Blank THEN Strip(SubSeq(line, 1, Len(line) - 1))
    ELSE line

\* The loop body of load_report over the lines (lines 376-381).
RECURSIVE LoadedFrom(_, _)
LoadedFrom(lines, disk) ==
    IF lines = <<>> THEN <<>>
    ELSE LET parts == Split(Strip(Head(lines)), "\t")
             rest == LoadedFrom(Tail(lines), disk)
         IN IF Len(parts) = 2 /\ parts[1] \in disk
            THEN <<<<parts[1], parts[2]>>>> \o rest
            ELSE rest

\* Everything but the report stage.
analysisVars ==
    <<video_files, kind, workers, use_cache, timeout_set, STOP_EVENT,
      ACTIVE_PROCESSES, PROCESS_LOCK, pc, ret, proc, local_copy, mainVars,
      stopSetAt, ranAtStop, temp_dir>>

\* save_report writes every line (lines 365-368).
SaveReport ==
    /\ reportPc = "start"
    /\ report_file' = Written(to_save)
    /\ reportPc' = "saved"
    /\ UNCHANGED <<analysisVars, to_save, on_disk, loaded>>

\* open() raises IOError: save_report logs it and no report is written
\* (line 369).
SaveReportFail ==
    /\ reportPc = "start"
    /\ reportPc' = "unsaved"
    /\ UNCHANGED <<analysisVars, to_save, report_file, on_disk, loaded>>

\* A listed file is removed between the save and the load.
DeletePath(path) ==
    /\ reportPc = "saved"
    /\ path \in on_disk
    /\ on_disk' = on_disk \ {path}
    /\ UNCHANGED <<analysisVars, reportPc, to_save, report_file, loaded>>

\* load_report: no file gives [], else the pairs of the well-formed lines
\* whose path exists (lines 372-382).
LoadReport ==
    /\ reportPc \in {"saved", "unsaved"}
    /\ loaded' = IF report_file = NoFile THEN <<>>
                 ELSE LoadedFrom(FileLines(report_file), on_disk)
    /\ reportPc' = "loaded"
    /\ UNCHANGED <<analysisVars, to_save, report_file, on_disk>>

\* Reading the report raises IOError: load_report returns [] (lines 383-384).
LoadReportFail ==
    /\ reportPc = "saved"
    /\ loaded' = <<>>
    /\ reportPc' = "unread"
    /\ UNCHANGED <<analysisVars, to_save, report_file, on_disk>>

\* ---- specification --------------------------------------------------------

\* A step of a worker thread, of an ffmpeg process or of the main thread.
Step ==
    \/ \E t \in video_files : Start(t)
    \/ \E t \in video_files : StartCopyOk(t)
    \/ \E t \in video_files : StartCopyFail(t)
    \/ \E t \in video_files : SpawnOk(t)
    \/ \E t \in video_files : SpawnFail(t)
    \/ \E t \in video_files : Register(t)
    \/ \E t \in video_files : PollExited(t)
    \/ \E t \in video_files : PollAlive(t)
    \/ \E t \in video_files : Sleep(t)
    \/ \E t \in video_files : StopTerminate(t)
    \/ \E t \in video_files : StopGraceExpired(t)
    \/ \E t \in video_files : TimeoutTerminate(t)
    \/ \E t \in video_files : TimeoutGraceExpired(t)
    \/ \E t \in video_files : Except(t)
    \/ \E t \in video_files : FinallyRemove(t)
    \/ \E t \in video_files : UnlinkOk(t)
    \/ \E t \in video_files : UnlinkFail(t)
    \/ \E t \in video_files : NoUnlink(t)
    \/ \E t \in video_files : ProcExitZero(t)
    \/ \E t \in video_files : ProcExitNonzero(t)
    \/ \E t \in video_files : HarvestBreak(t)
    \/ \E t \in video_files : HarvestResult(t)
    \/ \E t \in video_files : HarvestError(t)
    \/ LoopEndAbort
    \/ LoopEnd
    \/ CleanupEmpty
    \/ CleanupLock
    \/ \E p \in video_files : CleanupTerminate(p)
    \/ \E p \in video_files : CleanupGraceExpired(p)
    \/ CleanupClear
    \/ CleanupReturn
    \/ \E t \in video_files : ShutdownCancel(t)
    \/ ReturnEmpty
    \/ ReturnSorted

Next ==
    \/ SetStop
    \/ Step

Spec == Init /\ [][Next]_vars

\* The threads of the pool and the main thread are scheduled as long as
\* they can take a step; a key press and the exit of an ffmpeg process are
\* forced by nothing.
FairSpec == Spec /\ WF_vars(Step)

\* The same scheduling, and every ffmpeg process the poll loop watches
\* exits on its own sooner or later.
FairExitSpec ==
    /\ FairSpec
    /\ \A t \in 1..NumTasks :
           WF_vars(ProcExitZero(t) \/ ProcExitNonzero(t))

NextRunning ==
    \/ SetStopRunning
    \/ Step

SpecRunning == Init /\ [][NextRunning]_vars

\* The run of five files of different fates: the verifier of the first exits
\* nonzero, the second and the fifth never exit on their own, the third
\* cannot be read for staging, the fourth exits with code 0.
ScenarioKinds == <<"corrupt", "hang", "unreadable", "healthy", "hang">>

\* The worker count offered when the CPU count is unknown (line 432).
DefaultWorkers == 1

InitScenario ==
    /\ ReportIdle
    /\ video_files = DOMAIN ScenarioKinds
    /\ kind = ScenarioKinds
    /\ workers = DefaultWorkers
    /\ use_cache \in BOOLEAN
    /\ timeout_set = TRUE
    /\ Submitted

SpecScenario == InitScenario /\ [][Next]_vars

\* The report stage on its own: run_analysis has returned, a list of pairs
\* is saved and every path it names exists.
InitReport ==
    /\ temp_dir = FALSE
    /\ video_files = {}
    /\ kind = <<>>
    /\ workers = DefaultWorkers
    /\ use_cache = FALSE
    /\ timeout_set = FALSE
    /\ STOP_EVENT = FALSE
    /\ ACTIVE_PROCESSES = {}
    /\ PROCESS_LOCK = {}
    /\ pc = <<>>
    /\ ret = <<>>
    /\ proc = <<>>
    /\ local_copy = <<>>
    /\ mainPc = "done"
    /\ yielded = {}
    /\ harvested = {}
    /\ corrupted_files = <<>>
    /\ active_procs = {}
    /\ result = <<>>
    /\ stopSetAt = "unset"
    /\ ranAtStop = {}
    /\ reportPc = "start"
    /\ to_save \in PairLists
    /\ report_file = NoFile
    /\ on_disk = {to_save[i][1] : i \in DOMAIN to_save}
    /\ loaded = <<>>

NextReport ==
    \/ SaveReport
    \/ SaveReportFail
    \/ \E path \in Paths : DeletePath(path)
    \/ LoadReport
    \/ LoadReportFail

SpecReport == InitReport /\ [][NextReport]_vars

\* ---- claims ---------------------------------------------------------------

Verdict(t, corrupted, reason) == <<t, corrupted, reason>>

\* The invocation of future t is past line 268 and before line 286.
InRegistryWindow(t) == pc[t] \in {"poll", "chkstop", "except", "fin_lock"}

\* C1: when STOP_EVENT is set while run_analysis is still harvesting (before
\* line 307 has tested the flag), run_analysis returns the empty list.
C1_StopReturnsEmpty ==
    (mainPc = "done" /\ stopSetAt = "harvest") => result = <<>>

\* C1 witness: a run aborted after verdicts had been collected, which the
\* returned list does not hold.
C1_Witness ==
    /\ mainPc = "done"
    /\ stopSetAt = "harvest"
    /\ corrupted_files # <<>>
    /\ result = <<>>

\* C2: with the flag never set, every future yields a verdict that the loop
\* of run_analysis takes: as many verdicts as files.
C2_EveryVerdictHarvested ==
    (mainPc = "done" /\ ~STOP_EVENT) => harvested = video_files

\* C3: the verdict of an invocation whose process was running when the flag
\* was set, and which cleanup_active_processes has terminated, is Cancelled.
C3_CleanupKillGivesCancelled ==
    \A t \in video_files :
        (t \in ranAtStop /\ proc[t] = "killedC" /\ ret[t] # NoVerdict)
            => ret[t] = Verdict(t, FALSE, "Cancelled")

\* C4: once the flag is set, a future that has not started does not start:
\* it stays in the queue until it is cancelled.
C4_NoStartAfterStop ==
    [][\A t \in video_files :
          (STOP_EVENT /\ pc[t] = "pending") => pc'[t] \in {"pending", "cancelled"}]_vars

\* The five verdicts of the scenario: nonzero exit, timeout, copy error,
\* exit code 0 and cancellation, in the order of ScenarioKinds.
ScenarioHappened ==
    ret = << Verdict(1, TRUE, "Corruption detected"),
             Verdict(2, TRUE, "Timeout"),
             Verdict(3, TRUE, "Local copy error"),
             Verdict(4, FALSE, "Healthy"),
             Verdict(5, FALSE, "Cancelled") >>

\* C5 as stated: after the five verdicts of the scenario, run_analysis
\* returns the three corrupted entries ordered by path.
C5_ScenarioReturnsThree ==
    (mainPc = "done" /\ ScenarioHappened)
        => result = << <<1, "Corruption detected">>, <<2, "Timeout">>,
                       <<3, "Local copy error">> >>

\* C5 amended: a Cancelled verdict needs the flag set before the harvest
\* loop has ended, so after the five verdicts of the scenario run_analysis
\* returns the empty list.
C5_ScenarioReturnsEmpty ==
    (mainPc = "done" /\ ScenarioHappened) => result = <<>>

\* C5 witness: the scenario has happened, the three corrupted verdicts were
\* collected by the loop, and the returned list is empty.
C5_Witness ==
    /\ mainPc = "done"
    /\ ScenarioHappened
    /\ Len(corrupted_files) = Cardinality({t \in video_files : ret[t][2]})
    /\ result = <<>>

\* C6 as stated: the handle of a process that is alive is in
\* ACTIVE_PROCESSES from its registration on.
C6_AliveHandleRegistered ==
    \A t \in video_files :
        (proc[t] \in Alive /\ pc[t] \in {"poll", "chkstop", "except", "fin_lock", "fin_unlink"})
            => t \in ACTIVE_PROCESSES

\* C6 amended: a handle stays in ACTIVE_PROCESSES from its registration
\* until the finally clause of its own invocation removes it or
\* cleanup_active_processes has cleared the registry, whether or not the
\* process is alive then.
C6_RegisteredUntilRemoved ==
    \A t \in video_files :
        InRegistryWindow(t)
            => (t \in ACTIVE_PROCESSES \/ mainPc \in {"cl_ret", "shutdown", "done"})

\* C6 witness: cleanup_active_processes has cleared the registry while a
\* process it could not end within the grace period is alive and its worker
\* is still in the poll loop.
C6_Witness ==
    \E t \in video_files :
        /\ pc[t] = "poll"
        /\ proc[t] \in Alive
        /\ t \notin ACTIVE_PROCESSES
        /\ mainPc = "shutdown"

\* C7: no future ends with an exception.
C7_NoFutureRaises ==
    \A t \in video_files : pc[t] # "raised"

C9_RegistryEmptyAtReturn ==
    mainPc = "done" => ACTIVE_PROCESSES = {}

\* C9 witness: an aborted run has returned after an invocation that had
\* registered a process timed out.
C9_Witness ==
    /\ mainPc = "done"
    /\ STOP_EVENT
    /\ result = <<>>
    /\ \E t \in video_files : ret[t] = Verdict(t, TRUE, "Timeout")

\* C10: once STOP_EVENT is set during run_analysis, run_analysis returns.
C10_StopLeadsToReturn == STOP_EVENT ~> (mainPc = "done")

\* C10 witness: run_analysis has returned from an abort in which a worker
\* in flight saw the flag in its poll loop and the executor cancelled a
\* queued future.
C10_Witness ==
    /\ mainPc = "done"
    /\ stopSetAt = "harvest"
    /\ \E t \in video_files : ret[t] = Verdict(t, FALSE, "Cancelled")
    /\ \E t \in video_files : pc[t] = "cancelled"

\* C11: a run in which STOP_EVENT is never set and every ffmpeg process
\* exits returns: run_analysis reaches its return statement.
C11_NoStopLeadsToReturn == <>(STOP_EVENT \/ mainPc = "done")

\* C11 witness: run_analysis has returned on the normal path after the
\* workers ran side by side and every process exited on its own.
C11_Witness ==
    /\ mainPc = "done"
    /\ ~STOP_EVENT
    /\ workers > 1
    /\ harvested = video_files
    /\ \A t \in video_files :
           ret[t] \in {Verdict(t, FALSE, "Healthy"),
                       Verdict(t, TRUE, "Corruption detected")}

\* C12: never more than `workers` invocations of check_video_corruption
\* execute at once; every registered handle belongs to an executing
\* invocation, so ACTIVE_PROCESSES never holds more than `workers` handles.
C12_AtMostWorkersExecuting ==
    /\ Cardinality({t \in video_files : Running(t)}) <= workers
    /\ ACTIVE_PROCESSES \subseteq {t \in video_files : Running(t)}
    /\ Cardinality(ACTIVE_PROCESSES) <= workers

\* C12 witness: the pool is saturated: as many handles registered as there
\* are workers while a further future waits in the queue.
C12_Witness ==
    /\ Cardinality(ACTIVE_PROCESSES) = workers
    /\ \E t \in video_files : pc[t] = "pending"

\* C13: an invocation that found its timeout elapsed with the flag not set
\* returns the Timeout verdict also when the process outlives the grace
\* period of process.wait(timeout=5).
C13_TimeoutGivesTimeout ==
    [][\A t \in video_files :
          (pc[t] = "except" /\ ret'[t] # NoVerdict)
              => ret'[t] = Verdict(t, TRUE, "Timeout")]_vars

\* C14: an invocation whose staging copy failed has returned the copy-error
\* verdict at once: it is past every statement, holds no process and no
\* entry of ACTIVE_PROCESSES, and left no staged copy.
C14_CopyErrorSpawnsNothing ==
    \A t \in video_files :
        ret[t] = Verdict(t, TRUE, "Local copy error")
            => /\ use_cache
               /\ pc[t] = "done"
               /\ proc[t] = "none"
               /\ t \notin ACTIVE_PROCESSES
               /\ ~local_copy[t]

\* C14 witness: a copy-error verdict next to an invocation that did spawn
\* and register its process.
C14_Witness ==
    \E t \in video_files :
        /\ ret[t] = Verdict(t, TRUE, "Local copy error")
        /\ ACTIVE_PROCESSES # {}
        /\ t \notin ACTIVE_PROCESSES

\* A list of (path, reason) pairs in ascending order of path (the key of
\* the sort at line 311).
IsSortedByPath(s) ==
    \A i, j \in DOMAIN s : i < j => s[i][1] < s[j][1]

\* The (path, reason) pairs of the corrupted verdicts among the futures S.
CorruptedOf(S) == {<<t, ret[t][3]>> : t \in {u \in S : ret[u][2]}}

\* C15: the returned list is in ascending order of path, sorting it again
\* changes nothing, and on the normal path it is the one ordered list of
\* the corrupted verdicts harvested, whatever the order of harvesting.
C15_ResultSortedByPath ==
    mainPc = "done" =>
        /\ IsSortedByPath(result)
        /\ SortedByPath(result) = result
        /\ stopSetAt # "harvest" =>
               /\ {result[i] : i \in DOMAIN result} = CorruptedOf(harvested)
               /\ Len(result) = Cardinality(CorruptedOf(harvested))

\* C15 witness: verdicts were harvested out of path order and the returned
\* list holds them in path order.
C15_Witness ==
    /\ mainPc = "done"
    /\ Len(result) > 1
    /\ ~IsSortedByPath(corrupted_files)
    /\ IsSortedByPath(result)

\* C16: neither the list the loop builds nor the list run_analysis returns
\* ever holds an entry whose reason is Cancelled.
C16_NoCancelledEntry ==
    /\ \A i \in DOMAIN corrupted_files : corrupted_files[i][2] # "Cancelled"
    /\ \A i \in DOMAIN result : result[i][2] # "Cancelled"

\* C16 witness: run_analysis has returned from a run that collected
\* corrupted verdicts and in which an invocation returned Cancelled.
C16_Witness ==
    /\ mainPc = "done"
    /\ corrupted_files # <<>>
    /\ \E t \in video_files :
           pc[t] = "done" /\ ret[t] = Verdict(t, FALSE, "Cancelled")

\* C17: a future that raised does not stop the loop: on the normal path
\* every future was handed to the loop, the verdict of every future that
\* returned one was taken, and the returned list is that of the run without
\* the futures that raised.
C17_RaisedFutureSkipped ==
    (mainPc = "done" /\ stopSetAt # "harvest") =>
        /\ yielded = video_files
        /\ harvested = {t \in video_files : pc[t] = "done"}
        /\ result = SortedByPath(result)
        /\ {result[i] : i \in DOMAIN result}
               = CorruptedOf({t \in video_files : pc[t] = "done"})

\* C17 witness: a run with a future that raised has returned a list that
\* holds the corrupted verdict of another future.
C17_Witness ==
    /\ mainPc = "done"
    /\ ~STOP_EVENT
    /\ \E t \in video_files : pc[t] = "raised" /\ t \in yielded
    /\ result # <<>>

\* C18: when cleanup_active_processes returns, ACTIVE_PROCESSES is empty.
C18_RegistryEmptyAtCleanupReturn ==
    mainPc = "cl_ret" => ACTIVE_PROCESSES = {}

\* The pairs of a list whose path exists, in the order of the list.
KeptPairs(pairs, disk) == SelectSeq(pairs, LAMBDA e : e[1] \in disk)

\* C19: load_report after save_report returns the saved pairs in the saved
\* order when every path exists, and the others when one path is gone.
C19_ReportRoundTrip ==
    (reportPc = "loaded" /\ report_file # NoFile /\ Len(KeptPairs(to_save, on_disk)) >= Len(to_save) - 1)
        => loaded = KeptPairs(to_save, on_disk)

\* C20: at most one thread holds PROCESS_LOCK, and ACTIVE_PROCESSES only
\* changes in a step of the thread that holds it: a worker's add or remove
\* takes the lock when it is free, the clear of cleanup_active_processes
\* happens while the main thread holds it.
C20_RegistryChangesUnderLock ==
    /\ [](Cardinality(PROCESS_LOCK) <= 1)
    /\ [][ACTIVE_PROCESSES' # ACTIVE_PROCESSES =>
              \/ PROCESS_LOCK = {} /\ mainPc' = mainPc
              \/ PROCESS_LOCK = {0} /\ mainPc = "cl_loop" /\ pc' = pc]_vars

\* C20 witness: cleanup_active_processes holds the lock over a registry
\* that is not empty while a worker waits for the lock to remove its handle.
C20_Witness ==
    /\ PROCESS_LOCK = {0}
    /\ \E t \in video_files : pc[t] = "fin_lock" /\ t \in ACTIVE_PROCESSES

\* C21 as stated: the staged copy of an invocation is only deleted when the
\* process spawned to read it is no longer alive.
C21_CopyDeletedAfterExit ==
    [][\A t \in video_files :
          (local_copy[t] /\ ~local_copy'[t]) => proc[t] \notin Alive]_vars

\* C21 amended: the staged copy is deleted after the process has exited,
\* except on the paths where terminate() was followed by a grace period the
\* process outlived: only an invocation that returns Cancelled or
\* Unexpected error deletes the copy of a process that is alive.
C21_CopyDeletedAfterExitOrGrace ==
    [][\A t \in video_files :
          (local_copy[t] /\ ~local_copy'[t]) =>
              \/ proc[t] \notin Alive
              \/ ret[t] \in {Verdict(t, FALSE, "Cancelled"),
                              Verdict(t, TRUE, "Unexpected error")}]_vars

\* C21 witness: one invocation has deleted its copy after its process
\* exited, another is about to delete its copy although its process
\* outlived terminate() and the grace period.
C21_Witness ==
    /\ use_cache
    /\ \E t \in video_files :
           /\ pc[t] = "done"
           /\ ret[t] = Verdict(t, FALSE, "Healthy")
           /\ ~local_copy[t]
    /\ \E t \in video_files :
           /\ pc[t] = "fin_unlink"
           /\ local_copy[t]
           /\ proc[t] \in Alive
           /\ ret[t] = Verdict(t, TRUE, "Unexpected error")

\* C22: the temporary cache directory is never removed while a worker is
\* still executing check_video_corruption: once the directory is gone, on
\* the normal path and on the abort path alike, no invocation is running.
C22_TempDirOutlivesWorkers ==
    ~temp_dir => \A t \in video_files : ~Running(t)

\* C22 witness: the abort path has returned [] and removed the directory;
\* an invocation that was cancelled in its poll loop staged a copy and has
\* returned, the other future was cancelled in the queue.
C22_Witness ==
    /\ ~temp_dir
    /\ use_cache
    /\ STOP_EVENT
    /\ mainPc = "done"
    /\ result = <<>>
    /\ \E t \in video_files :
           /\ pc[t] = "done"
           /\ t \notin harvested
           /\ ret[t] = Verdict(t, FALSE, "Cancelled")
    /\ \E t \in video_files : pc[t] = "cancelled"

====
